---- MODULE Spec2Model ----
(***************************************************************************)
(* Call signaling and negotiation of the AudioCall component               *)
(* (src/src/components/ChatRequests.tsx, lines 303-621).  ChatWindow        *)
(* (src/unnamed/part_002, lines 391-400) mounts its call component with     *)
(* isInitiator={true} on either side.                                       *)
(*                                                                         *)
(* Two participants share the broadcast topic audio-call-<chatId>.  Each   *)
(* participant has one mounted call component; every time its isOpen prop  *)
(* becomes true the effect starts one run of initializeCall.  A run owns   *)
(* the objects it creates (capture stream, RTCPeerConnection, realtime     *)
(* channel); the component's React state and channelRef only refer to      *)
(* them.  Handlers installed by a run (signaling handler, ontrack,         *)
(* oniceconnectionstatechange) and the effect's cleanup close over the     *)
(* values of localStream / peerConnection of the render in which the       *)
(* effect ran; the hang-up button closes over the latest render.           *)
(*                                                                         *)
(* Each participant opens the dialog once, except in SpecReopen and        *)
(* SpecRedial, where one participant opens it up to MaxRuns times on the   *)
(* same mounted component.  onClose() turns the                            *)
(* parent's isOpen off, and the effect cleanup that follows is part of the *)
(* step that called onClose.  Spec, SpecTopic and SpecLive take one        *)
(* invocation of the broadcast handler as one step; SpecAsync shows the    *)
(* awaits of its offer branch.                                             *)
(*                                                                         *)
(* Beside the call: the presence heartbeat (src/src/hooks/                *)
(* useUserPresence.tsx) with isUserOnline (src/src/components/             *)
(* ChatList.tsx) in SpecPresence, sendChatRequest (src/unnamed/part_001)   *)
(* with acceptRequest and create_chat_with_members in SpecRequests, and    *)
(* getUserFriendlyError (src/src/lib/errorHandler.ts) in SpecErr.          *)
(***************************************************************************)
EXTENDS Integers, Sequences, FiniteSets, TLC

\* ------------------------------------------------------------------ bounds
MaxCand == 1      \* local ICE candidates one connection may emit
MaxForeign == 3   \* publications of a third member of the topic
MaxRuns == 2      \* times one participant's dialog may be opened
MaxTicks == 2     \* seconds the duration counter is followed
MaxMounts == 2    \* times the presence hook is mounted for the user
MaxTime == 90000  \* milliseconds of wall-clock time that are followed
MaxInv == 2       \* overlapping invocations of one request handler

Step == 10000             \* milliseconds by which the clock advances
MaxLag == 20000           \* an update that succeeds lands within this time
HeartbeatPeriod == 30000  \* setInterval period of useUserPresence, ms
OnlineLimit == 60         \* isUserOnline: age limit of last_seen, seconds
Null == -1                \* last_seen IS NULL
Inv == 1..MaxInv

Peers == {"a", "b"}        \* the two participants of the call
Third == "c"               \* another client joined to the same topic
Users == Peers \cup {Third}
Runs == 1..MaxRuns          \* runs of initializeCall per participant
Other(p) == IF p = "a" THEN "b" ELSE "a"

MsgTypes == {"offer", "answer", "ice-candidate", "end-call"}

VARIABLES
  isOpen,          \* prop isOpen of the component (parent state)
  nruns,           \* number of initializeCall runs started by the effect
  localStream,     \* React state localStream: 0 = null, k = stream of run k
  peerConnection,  \* React state peerConnection: 0 = null, k = pc of run k
  channelRef,      \* channelRef.current: 0 = null, k = channel of run k
  callStatus,      \* React state callStatus
  callDuration,    \* React state callDuration
  callTimerRef,    \* callTimerRef.current: null, a running or a cleared interval
  intervals,       \* number of running intervals created by the timer effect
  ipc,             \* position of each run of initializeCall
  initiator,       \* isInitiator as closed over by each run
  cap,             \* localStream / peerConnection closed over by each run
  stream,          \* the MediaStream a run obtained from getUserMedia
  conn,            \* the RTCPeerConnection a run created
  chan,            \* the realtime channel a run created
  inbox,           \* broadcasts queued for a channel's handler
  sentOffer,       \* history: the run has published an offer
  sentEnd,         \* history: end-call messages the session has published
  hangCalls,       \* history: handleEndCall invocations of the session
  localHang,       \* history: the hang-up button was used in the session
  prior,           \* history: sessions of the peer already over at Open
  foreign,         \* number of publications of the third member
  filtered,        \* history: the recipient filter discarded a payload
  inflight,        \* offer-branch invocations of a handler suspended at await
  isMuted,         \* React state isMuted
  enabled,         \* enabled flag of the audio track of a run's stream
  escaped,         \* history: an error left a callback of the component
  errIn,           \* error value caught by a catch block
  errOut,          \* what that catch block hands to toast.error
  now,             \* wall clock, milliseconds
  hookMounted,     \* the effect of useUserPresence is set up for the user
  epoch,           \* number of times that effect has been set up
  sinceBeat,       \* milliseconds since the hook last issued online
  profile,         \* profiles row of the user: status, last_seen
  pendingUpd,      \* profile updates issued and not yet applied
  landed,          \* an update of the current mounting has been applied
  target,          \* profile the sender picks in the contact search
  requests,        \* chat_requests rows from the sender to the target
  chatsShared,     \* chats that have both users as members
  spos,            \* position of each invocation of sendChatRequest
  apos,            \* position of each invocation of acceptRequest
  areq             \* chat_requests row each acceptRequest was called for

vars == <<isOpen, nruns, localStream, peerConnection, channelRef, callStatus,
          callDuration, callTimerRef, intervals,
          ipc, initiator, cap, stream, conn, chan, inbox,
          sentOffer, sentEnd, hangCalls, localHang, prior, foreign,
          filtered, inflight, isMuted, enabled, escaped, errIn, errOut,
          now, hookMounted, epoch, sinceBeat, profile, pendingUpd, landed,
          target, requests, chatsShared, spos, apos, areq>>

timerVars == <<callDuration, callTimerRef, intervals>>
compVars == <<isOpen, localStream, peerConnection, channelRef, callStatus,
              timerVars>>
histVars == <<sentOffer, sentEnd, hangCalls, localHang>>
envVars == <<prior, foreign, filtered>>
presVars == <<now, hookMounted, epoch, sinceBeat, profile, pendingUpd, landed>>
dbVars == <<target, requests, chatsShared, spos, apos, areq>>
appVars == <<presVars, dbVars>>
sideVars == <<isMuted, enabled, errIn, errOut, appVars>>

\* ------------------------------------------------------- RTCPeerConnection
NoConn == [state |-> "none", sig |-> "stable", hasLocal |-> FALSE,
           hasRemote |-> FALSE, ice |-> "new", emitted |-> 0,
           recv |-> 0, added |-> 0]
NewConn == [NoConn EXCEPT !.state = "open"]
ClosedConn == [NoConn EXCEPT !.state = "closed"]

NoCap == [ls |-> 0, pc |-> 0]

Msg(t, p, g) == [type |-> t, from |-> p, to |-> Other(p), gen |-> g]

Bump(n) == IF n < 2 THEN n + 1 ELSE 2

\* ------------------------------------------------------------ error values
\* An error value as getUserFriendlyError sees it: null or undefined
\* (nil), its code, whether its message is absent, a string or a value
\* without an includes method, and which patterns a string message
\* contains next to its raw text.
Codes == {"absent", "23505", "23503", "PGRST301", "42P01", "other"}
Patterns == {"RLS", "row-level security", "JWT", "authentication",
             "duplicate key", "foreign key"}
NoError == [nil |-> TRUE, code |-> "absent", kind |-> "absent", has |-> {}]
Errors ==
  {NoError}
    \cup [nil : {FALSE}, code : Codes, kind : {"absent", "nonstring"},
          has : {{}}]
    \cup [nil : {FALSE}, code : Codes, kind : {"string"},
          has : SUBSET Patterns]

\* the fixed strings of getUserFriendlyError (lines 10-13, 17, 20, 23, 26, 30)
FixedStrings == {"record exists", "related data missing", "no access",
                 "resource missing", "access denied", "re-authorization",
                 "generic"}

\* error?.message?.includes(pat)
Includes(e, pat) ==
  IF e.kind = "absent" THEN "no"
  ELSE IF e.kind = "nonstring" THEN "TypeError"
  ELSE IF pat \in e.has THEN "yes" ELSE "no"

\* the raw message returned
Fallback_Raw(e) == IF e.kind = "string" THEN "raw message" ELSE "generic"

\* the generic fallback (line 30)
Fallback(e) == "generic"

\* getUserFriendlyError: its return value, or the TypeError it throws
getUserFriendlyError(e) ==
  IF e.code = "23505" THEN "record exists"
  ELSE IF e.code = "23503" THEN "related data missing"
  ELSE IF e.code = "PGRST301" THEN "no access"
  ELSE IF e.code = "42P01" THEN "resource missing"
  ELSE IF Includes(e, "RLS") = "TypeError" THEN "TypeError"
  ELSE IF Includes(e, "RLS") = "yes"
          \/ Includes(e, "row-level security") = "yes" THEN "access denied"
  ELSE IF Includes(e, "JWT") = "yes"
          \/ Includes(e, "authentication") = "yes" THEN "re-authorization"
  ELSE IF Includes(e, "duplicate key") = "yes" THEN "record exists"
  ELSE IF Includes(e, "foreign key") = "yes" THEN "related data missing"
  ELSE Fallback(e)

\* initializeCall catch: the toast text does not depend on the error
InitToast(e) == "no microphone access"

InitCall ==
  /\ isOpen = [p \in Peers |-> FALSE]
  /\ nruns = [p \in Peers |-> 0]
  /\ localStream = [p \in Peers |-> 0]
  /\ peerConnection = [p \in Peers |-> 0]
  /\ channelRef = [p \in Peers |-> 0]
  /\ callStatus = [p \in Peers |-> "connecting"]
  /\ callDuration = [p \in Peers |-> 0]
  /\ callTimerRef = [p \in Peers |-> "null"]
  /\ intervals = [p \in Peers |-> 0]
  /\ ipc = [p \in Peers |-> [k \in Runs |-> "none"]]
  /\ initiator = [p \in Peers |-> [k \in Runs |-> FALSE]]
  /\ cap = [p \in Peers |-> [k \in Runs |-> NoCap]]
  /\ stream = [p \in Peers |-> [k \in Runs |-> "none"]]
  /\ conn = [p \in Peers |-> [k \in Runs |-> NoConn]]
  /\ chan = [p \in Peers |-> [k \in Runs |-> "none"]]
  /\ inbox = [p \in Peers |-> [k \in Runs |-> <<>>]]
  /\ sentOffer = [p \in Peers |-> [k \in Runs |-> FALSE]]
  /\ sentEnd = [p \in Peers |-> [k \in Runs |-> 0]]
  /\ hangCalls = [p \in Peers |-> [k \in Runs |-> 0]]
  /\ localHang = [p \in Peers |-> [k \in Runs |-> FALSE]]
  /\ prior = [p \in Peers |-> [k \in Runs |-> 0]]
  /\ foreign = 0
  /\ filtered = FALSE
  /\ inflight = [p \in Peers |-> [k \in Runs |-> 0]]
  /\ isMuted = [p \in Peers |-> FALSE]
  /\ enabled = [p \in Peers |-> [k \in Runs |-> TRUE]]
  /\ escaped = [p \in Peers |-> FALSE]

\* the page is not mounted yet; the profile has never been updated
InitPresence ==
  /\ now = 0
  /\ hookMounted = FALSE
  /\ epoch = 0
  /\ sinceBeat = 0
  /\ profile = [status |-> "offline", last_seen |-> Null]
  /\ pendingUpd = {}
  /\ landed = FALSE

\* no request and no chat between the two users yet
InitDb ==
  /\ requests = <<>>
  /\ chatsShared = 0
  /\ spos = [i \in Inv |-> "idle"]
  /\ apos = [i \in Inv |-> "idle"]
  /\ areq = [i \in Inv |-> 0]

\* no catch block of the other components has run
Init ==
  /\ InitCall
  /\ errIn = NoError
  /\ errOut = "none"
  /\ InitPresence
  /\ InitDb
  /\ target = "b"

\* ------------------------------------------------- signaling transport
\* Realtime broadcast: a message published on the topic reaches every
\* channel that is joined to the topic at another client at that moment.
Broadcast(ib, p, m) ==
  [q \in Peers |-> [k \in Runs |->
     IF q # p /\ chan[q][k] = "joined" THEN Append(ib[q][k], m) ELSE ib[q][k]]]

\* the guard taking every channel reference as missing
ChannelReady_Never(ref) == FALSE

\* sendSignalingMessage: guard on channelRef.current (line 462)
ChannelReady(ref) == ref # 0

\* sendSignalingMessage (lines 460-480)
SendSignaling(ib, p, t, g) ==
  IF ChannelReady(channelRef[p]) THEN Broadcast(ib, p, Msg(t, p, g)) ELSE ib

\* the recipient filter left out
AcceptsPayload_Any(to, me) == TRUE

\* broadcast handler: recipient filter (line 487)
AcceptsPayload(to, me) == to = me

\* ------------------------------------------------------ duration timer
\* clearInterval(callTimerRef.current) behind if (callTimerRef.current):
\* the number of running intervals afterwards
ClearInterval(ref, n) == IF ref = "running" THEN n - 1 ELSE n
\* callTimerRef.current after such a clearInterval (the id stays in the ref)
ClearedRef(ref) == IF ref = "running" THEN "cleared" ELSE ref

\* the duration left as it is
ResetDuration_Keep(d) == d

\* cleanup: setCallDuration(0)
ResetDuration(d) == 0

\* useEffect([callStatus]): when a step changes callStatus, the cleanup of
\* the previous effect clears the interval in callTimerRef, then the effect
\* starts a new interval if the status is connected
StatusEffect(p) ==
  /\ IF callStatus'[p] = callStatus[p]
     THEN UNCHANGED <<callTimerRef, intervals>>
     ELSE IF callStatus'[p] = "connected"
     THEN /\ intervals' = [intervals EXCEPT ![p] =
                             ClearInterval(callTimerRef[p], @) + 1]
          /\ callTimerRef' = [callTimerRef EXCEPT ![p] = "running"]
     ELSE /\ intervals' = [intervals EXCEPT ![p] =
                             ClearInterval(callTimerRef[p], @)]
          /\ callTimerRef' = [callTimerRef EXCEPT ![p] = ClearedRef(@)]
  /\ UNCHANGED callDuration

\* ----------------------------------------------------------- cleanup
\* cleanup: tracks stopped when the closed-over localStream is set
CleanupStreams(ls) == IF ls # 0 THEN {ls} ELSE {}
\* cleanup: connection closed when the closed-over peerConnection is set
CleanupConns(pcv) == IF pcv # 0 THEN {pcv} ELSE {}
\* cleanup: channel removed when channelRef.current is set
CleanupChannel(ref) == IF ref # 0 THEN {ref} ELSE {}
\* the reference kept after the removal
CleanupRef_Keep(ref) == ref

\* cleanup: channelRef.current after the removal
CleanupRef(ref) == 0

\* the guard left out
CleanupGuard_None(v) == TRUE

\* cleanup: the if (...) in front of each release (lines 545, 548, 551)
CleanupGuard(v) == v # 0

\* cleanup: a release whose guard lets a null through calls a method on
\* null, and the TypeError leaves cleanup and its caller
CleanupThrows(cls, ref) ==
  \/ \E c \in cls : \/ (CleanupGuard(c.ls) /\ c.ls = 0)
                    \/ (CleanupGuard(c.pc) /\ c.pc = 0)
  \/ (CleanupGuard(ref) /\ ref = 0)

\* One or two consecutive calls of cleanup (from the closures cls) by the
\* component of p, starting from connections cn and inboxes ib.
Cleanup(p, cls, cn, ib) ==
  LET S == UNION {CleanupStreams(c.ls) : c \in cls}
      C == UNION {CleanupConns(c.pc) : c \in cls}
      R == CleanupChannel(channelRef[p])
  IN /\ stream' = [stream EXCEPT ![p] = [k \in Runs |->
                     IF k \in S /\ stream[p][k] = "live" THEN "stopped"
                     ELSE stream[p][k]]]
     /\ conn' = [cn EXCEPT ![p] = [k \in Runs |->
                     IF k \in C /\ cn[p][k].state = "open" THEN ClosedConn
                     ELSE cn[p][k]]]
     /\ chan' = [chan EXCEPT ![p] = [k \in Runs |->
                     IF k \in R THEN "removed" ELSE chan[p][k]]]
     /\ inbox' = [ib EXCEPT ![p] = [k \in Runs |->
                     IF k \in R THEN <<>> ELSE ib[p][k]]]
     /\ channelRef' = [channelRef EXCEPT ![p] = CleanupRef(channelRef[p])]
     /\ localStream' = [localStream EXCEPT ![p] = 0]
     /\ peerConnection' = [peerConnection EXCEPT ![p] = 0]
     /\ callStatus' = [callStatus EXCEPT ![p] = "ended"]
     /\ intervals' = [intervals EXCEPT ![p] =
                        ClearInterval(callTimerRef[p], @)]
     /\ callTimerRef' = [callTimerRef EXCEPT ![p] = ClearedRef(@)]
     /\ callDuration' = [callDuration EXCEPT ![p] = ResetDuration(@)]
     /\ escaped' = [escaped EXCEPT ![p] = @ \/ CleanupThrows(cls, channelRef[p])]

\* Closure of the effect whose cleanup runs when isOpen turns false.
EffectClosure(p) == IF isOpen[p] THEN {cap[p][nruns[p]]} ELSE {}

\* handleEndCall invoked from closure cl on behalf of session k
HandleEndCall(p, k, cl, cn, ib) ==
  LET ready == ChannelReady(channelRef[p])
  IN /\ Cleanup(p, {cl} \cup EffectClosure(p), cn,
                SendSignaling(ib, p, "end-call", k))
     /\ isOpen' = [isOpen EXCEPT ![p] = FALSE]
     /\ sentEnd' = IF ready THEN [sentEnd EXCEPT ![p][k] = Bump(@)]
                   ELSE sentEnd
     /\ hangCalls' = [hangCalls EXCEPT ![p][k] = Bump(@)]

\* the catch block without onClose()
InitCatch_NoClose(p) ==
  UNCHANGED <<compVars, stream, conn, chan, inbox, escaped>>

\* initializeCall catch block: toast, onClose()
InitCatch(p) ==
  IF isOpen[p]
  THEN /\ Cleanup(p, EffectClosure(p), conn, inbox)
       /\ isOpen' = [isOpen EXCEPT ![p] = FALSE]
  ELSE UNCHANGED <<compVars, stream, conn, chan, inbox, escaped>>

\* number of sessions of q that are over (their dialog was closed)
Over(q) == IF isOpen[q] THEN nruns[q] - 1 ELSE nruns[q]

\* -------------------------------------------------------------- actions
\* parent sets isOpen; the effect calls initializeCall up to getUserMedia;
\* the dialog is opened at most limit times
OpenDialog(p, init, limit) ==
  /\ ~isOpen[p]
  /\ nruns[p] < limit
  /\ LET k == nruns[p] + 1 IN
       /\ nruns' = [nruns EXCEPT ![p] = k]
       /\ ipc' = [ipc EXCEPT ![p][k] = "gum"]
       /\ initiator' = [initiator EXCEPT ![p][k] = init]
       /\ cap' = [cap EXCEPT ![p][k] =
                    [ls |-> localStream[p], pc |-> peerConnection[p]]]
       /\ prior' = [prior EXCEPT ![p][k] = Over(Other(p))]
  /\ isOpen' = [isOpen EXCEPT ![p] = TRUE]
  /\ UNCHANGED <<localStream, peerConnection, channelRef, callStatus,
                 timerVars,
                 stream, conn, chan, inbox, histVars, foreign, filtered,
                 inflight, sideVars, escaped>>

\* the dialog of p opened for its only call
Open(p, init) == OpenDialog(p, init, 1)

\* getUserMedia resolves: stream, pc, handlers, subscribe() issued
GumGranted(p, k) ==
  /\ ipc[p][k] = "gum"
  /\ stream' = [stream EXCEPT ![p][k] = "live"]
  /\ localStream' = [localStream EXCEPT ![p] = k]
  /\ conn' = [conn EXCEPT ![p][k] = NewConn]
  /\ peerConnection' = [peerConnection EXCEPT ![p] = k]
  /\ chan' = [chan EXCEPT ![p][k] = "joining"]
  /\ ipc' = [ipc EXCEPT ![p][k] = "sub"]
  /\ UNCHANGED <<isOpen, envVars, inflight, sideVars, escaped, nruns, channelRef, callStatus, timerVars, initiator, cap,
                 inbox, histVars>>

\* getUserMedia rejects
GumDenied(p, k) ==
  /\ ipc[p][k] = "gum"
  /\ ipc' = [ipc EXCEPT ![p][k] = "error"]
  /\ InitCatch(p)
  /\ UNCHANGED <<envVars, inflight, sideVars, nruns, initiator, cap, histVars>>

\* the isInitiator test left out
AfterSubscribe_AnyRole(isInit) == "delay"

\* next position of initializeCall after subscribeToSignaling resolved
AfterSubscribe(isInit) == IF isInit THEN "delay" ELSE "done"

\* statuses the realtime client reports to the subscribe callback
SubStatuses == {"SUBSCRIBED", "CHANNEL_ERROR", "TIMED_OUT", "CLOSED"}

\* the status test left out
Confirms_Any(status) == TRUE

\* subscribe callback: the status that stores the channel and resolves
Confirms(status) == status = "SUBSCRIBED"

\* subscribe callback of the channel created by run k
SubscribeStatus(p, k, status) ==
  /\ chan[p][k] = "joining"
  /\ chan' = [chan EXCEPT ![p][k] =
                IF status = "SUBSCRIBED" THEN "joined" ELSE "errored"]
  /\ IF Confirms(status)
     THEN /\ channelRef' = [channelRef EXCEPT ![p] = k]
          /\ ipc' = [ipc EXCEPT ![p][k] = AfterSubscribe(initiator[p][k])]
     ELSE UNCHANGED <<channelRef, ipc>>
  /\ UNCHANGED <<isOpen, envVars, inflight, sideVars, escaped, nruns, localStream, peerConnection,
                 callStatus, timerVars, initiator, cap, stream, conn, inbox,
                 histVars>>

\* position of initializeCall at which the offer is created and sent
OfferPoint(pos) == pos = "delay"

\* a publish that did not go out rethrown to the caller
AfterSend_Throws(published) == IF published THEN "done" ELSE "error"

\* position of initializeCall after await sendSignalingMessage returns:
\* the try/catch of sendSignalingMessage keeps every failure inside
AfterSend(published) == "done"

\* settle delay over: createOffer, setLocalDescription, send offer
SendOffer(p, k) ==
  /\ OfferPoint(ipc[p][k])
  /\ IF conn[p][k].state = "open"
     THEN /\ conn' = [conn EXCEPT ![p][k].sig = "have-local-offer",
                                  ![p][k].hasLocal = TRUE]
          /\ inbox' = SendSignaling(inbox, p, "offer", k)
          /\ sentOffer' = [sentOffer EXCEPT ![p][k] =
                             @ \/ ChannelReady(channelRef[p])]
          /\ ipc' = [ipc EXCEPT ![p][k] =
                       AfterSend(ChannelReady(channelRef[p]))]
          /\ UNCHANGED <<compVars, stream, chan, escaped>>
     ELSE /\ ipc' = [ipc EXCEPT ![p][k] = "error"]
          /\ InitCatch(p)
          /\ UNCHANGED sentOffer
  /\ UNCHANGED <<envVars, inflight, sideVars, nruns, initiator, cap, sentEnd, hangCalls, localHang>>

\* settle delay over: createOffer or setLocalDescription rejects on a
\* connection that is still open; the catch block runs
OfferThrows(p, k) ==
  /\ OfferPoint(ipc[p][k])
  /\ conn[p][k].state = "open"
  /\ ipc' = [ipc EXCEPT ![p][k] = "error"]
  /\ InitCatch(p)
  /\ UNCHANGED <<envVars, inflight, sideVars, nruns, initiator, cap, histVars>>

\* pc.onicecandidate with a candidate
LocalCandidate(p, k) ==
  /\ conn[p][k].state = "open"
  /\ conn[p][k].hasLocal
  /\ conn[p][k].emitted < MaxCand
  /\ conn' = [conn EXCEPT ![p][k].emitted = @ + 1]
  /\ inbox' = SendSignaling(inbox, p, "ice-candidate", k)
  /\ UNCHANGED <<compVars, envVars, inflight, sideVars, escaped, nruns, ipc, initiator, cap, stream, chan,
                 histVars>>

\* pc.addIceCandidate: rejected while the connection has no remote description
AddIceCandidate(c) ==
  IF c.hasRemote THEN [c EXCEPT !.recv = @ + 1, !.added = @ + 1]
  ELSE [c EXCEPT !.recv = @ + 1]

\* pc.ontrack fires when the first remote description brings the remote track
OnTrack(p, c) ==
  IF ~c.hasRemote THEN [callStatus EXCEPT ![p] = "connected"] ELSE callStatus

\* handler, offer branch: setRemoteDescription, createAnswer,
\* setLocalDescription, send answer; a throw is caught and logged
OnOffer(p, k, ib) ==
  LET c == conn[p][k] IN
  \E rollback \in BOOLEAN :
    IF c.state = "open"
       /\ (c.sig = "stable" \/ (c.sig = "have-local-offer" /\ rollback))
    THEN /\ conn' = [conn EXCEPT ![p][k] =
                       [c EXCEPT !.hasRemote = TRUE, !.hasLocal = TRUE,
                                 !.sig = "stable"]]
         /\ callStatus' = OnTrack(p, c)
         /\ StatusEffect(p)
         /\ inbox' = SendSignaling(ib, p, "answer", k)
    ELSE /\ inbox' = ib
         /\ UNCHANGED <<conn, callStatus, timerVars>>

\* handler, answer branch
OnAnswer(p, k, ib) ==
  LET c == conn[p][k] IN
  /\ inbox' = ib
  /\ IF c.state = "open" /\ c.sig = "have-local-offer"
     THEN /\ conn' = [conn EXCEPT ![p][k] =
                        [c EXCEPT !.hasRemote = TRUE, !.sig = "stable"]]
          /\ callStatus' = OnTrack(p, c)
          /\ StatusEffect(p)
     ELSE UNCHANGED <<conn, callStatus, timerVars>>

\* handler, ice-candidate branch
OnCandidate(p, k, ib) ==
  LET c == conn[p][k] IN
  /\ inbox' = ib
  /\ conn' = IF c.state = "open"
             THEN [conn EXCEPT ![p][k] = AddIceCandidate(c)] ELSE conn
  /\ UNCHANGED <<callStatus, timerVars>>

\* the payload handed over out of turn: the newest instead of the oldest
NextPayload_Last(q) == q[Len(q)]

\* the channel calls the handler with the payloads in the order they arrived
NextPayload(q) == Head(q)

\* the broadcast handler registered by run k is called with the next payload
Deliver(p, k) ==
  /\ chan[p][k] = "joined"
  /\ inbox[p][k] # <<>>
  /\ LET m == NextPayload(inbox[p][k])
         ib == [inbox EXCEPT ![p][k] = Tail(@)]
     IN IF ~AcceptsPayload(m.to, p)
        THEN /\ inbox' = ib
             /\ filtered' = TRUE
             /\ UNCHANGED <<compVars, stream, conn, chan, histVars, escaped>>
        ELSE IF m.type = "end-call"
        THEN /\ HandleEndCall(p, k, cap[p][k], conn, ib)
             /\ UNCHANGED <<sentOffer, localHang, filtered>>
        ELSE /\ UNCHANGED filtered
             /\ CASE m.type = "offer" -> OnOffer(p, k, ib)
                  [] m.type = "answer" -> OnAnswer(p, k, ib)
                  [] OTHER -> OnCandidate(p, k, ib)
             /\ UNCHANGED <<isOpen, localStream, peerConnection, channelRef,
                            stream, chan, histVars, escaped>>
  /\ UNCHANGED <<prior, foreign, inflight, sideVars, nruns, ipc, initiator, cap>>

\* The offer branch of the handler in its two halves.  First half: the
\* handler is called with an offer addressed to the local participant and
\* runs up to the completion of await pc.setRemoteDescription.
OnOfferBegin(p, k) ==
  /\ chan[p][k] = "joined"
  /\ inbox[p][k] # <<>>
  /\ NextPayload(inbox[p][k]).type = "offer"
  /\ AcceptsPayload(NextPayload(inbox[p][k]).to, p)
  /\ inbox' = [inbox EXCEPT ![p][k] = Tail(@)]
  /\ LET c == conn[p][k] IN
     \E rollback \in BOOLEAN :
       IF c.state = "open"
          /\ (c.sig \in {"stable", "have-remote-offer"}
               \/ (c.sig = "have-local-offer" /\ rollback))
       THEN /\ conn' = [conn EXCEPT ![p][k] =
                          [c EXCEPT !.hasRemote = TRUE,
                                    !.sig = "have-remote-offer"]]
            /\ callStatus' = OnTrack(p, c)
            /\ StatusEffect(p)
            /\ inflight' = [inflight EXCEPT ![p][k] = @ + 1]
       ELSE UNCHANGED <<conn, callStatus, timerVars, inflight>>
  /\ UNCHANGED <<isOpen, localStream, peerConnection, channelRef, stream,
                 chan, histVars, envVars, sideVars, escaped, nruns, ipc,
                 initiator, cap>>

\* Second half: createAnswer, setLocalDescription, send answer; a throw
\* (connection closed or already answered) is caught and logged.
OnOfferResume(p, k) ==
  /\ inflight[p][k] > 0
  /\ inflight' = [inflight EXCEPT ![p][k] = @ - 1]
  /\ IF conn[p][k].state = "open" /\ conn[p][k].sig = "have-remote-offer"
     THEN /\ conn' = [conn EXCEPT ![p][k].sig = "stable",
                                  ![p][k].hasLocal = TRUE]
          /\ inbox' = SendSignaling(inbox, p, "answer", k)
     ELSE UNCHANGED <<conn, inbox>>
  /\ UNCHANGED <<compVars, stream, chan, histVars, envVars, sideVars,
                 escaped, nruns, ipc, initiator, cap>>

\* the handler called with anything but an offer for the local participant
DeliverOther(p, k) ==
  /\ Deliver(p, k)
  /\ ~(Head(inbox[p][k]).type = "offer"
         /\ AcceptsPayload(Head(inbox[p][k]).to, p))

\* pc.oniceconnectionstatechange, state connected
IceConnected(p, k) ==
  /\ conn[p][k].state = "open"
  /\ conn[p][k].hasLocal /\ conn[p][k].hasRemote
  /\ conn[p][k].ice \in {"new", "disconnected"}
  /\ conn' = [conn EXCEPT ![p][k].ice = "connected"]
  /\ callStatus' = [callStatus EXCEPT ![p] = "connected"]
  /\ StatusEffect(p)
  /\ UNCHANGED <<isOpen, envVars, inflight, sideVars, escaped, nruns, localStream, peerConnection, channelRef,
                 ipc, initiator, cap, stream, chan, inbox, histVars>>

\* pc.oniceconnectionstatechange, state disconnected or failed
IceLost(p, k, st) ==
  /\ conn[p][k].state = "open"
  /\ conn[p][k].hasLocal /\ conn[p][k].hasRemote
  /\ conn[p][k].ice # "failed" /\ conn[p][k].ice # st
  /\ HandleEndCall(p, k, cap[p][k], [conn EXCEPT ![p][k].ice = st], inbox)
  /\ UNCHANGED <<envVars, inflight, sideVars, nruns, ipc, initiator, cap, sentOffer, localHang>>

\* hang-up button, or the dialog dismissed (onOpenChange)
HangUp(p) ==
  /\ isOpen[p]
  /\ HandleEndCall(p, nruns[p],
                   [ls |-> localStream[p], pc |-> peerConnection[p]],
                   conn, inbox)
  /\ localHang' = [localHang EXCEPT ![p][nruns[p]] = TRUE]
  /\ UNCHANGED <<envVars, inflight, sideVars, nruns, ipc, initiator, cap, sentOffer>>

\* the parent turns isOpen off (or unmounts): the effect's cleanup runs
ParentClose(p) ==
  /\ isOpen[p]
  /\ Cleanup(p, EffectClosure(p), conn, inbox)
  /\ isOpen' = [isOpen EXCEPT ![p] = FALSE]
  /\ UNCHANGED <<envVars, inflight, sideVars, nruns, ipc, initiator, cap, histVars>>

\* the track flag left as it is
ToggleTrack_Keep(e) == e

\* toggleMute: track.enabled = !track.enabled
ToggleTrack(e) == ~e

\* mute button, enabled while callStatus is connected
ToggleMute(p) ==
  /\ isOpen[p]
  /\ callStatus[p] = "connected"
  /\ IF localStream[p] # 0
     THEN /\ enabled' = [enabled EXCEPT ![p][localStream[p]] = ToggleTrack(@)]
          /\ isMuted' = [isMuted EXCEPT ![p] = ~@]
     ELSE UNCHANGED <<enabled, isMuted>>
  /\ UNCHANGED <<compVars, histVars, envVars, inflight, escaped, errIn, errOut,
                 appVars, nruns, ipc, initiator, cap, stream, conn, chan,
                 inbox>>

\* a running interval fires: setCallDuration(prev => prev + 1)
Tick(p) ==
  /\ intervals[p] > 0
  /\ callDuration[p] < MaxTicks
  /\ callDuration' = [callDuration EXCEPT ![p] = @ + 1]
  /\ UNCHANGED <<isOpen, localStream, peerConnection, channelRef,
                 callStatus, callTimerRef, intervals, histVars, envVars,
                 inflight, sideVars, escaped, nruns, ipc, initiator, cap,
                 stream, conn, chan, inbox>>

\* a catch block of ChatRequests, ChatWindow or Auth shows
\* getUserFriendlyError(error); a TypeError thrown by it shows nothing
ToastFriendly ==
  /\ errOut = "none"
  /\ errOut' = getUserFriendlyError(errIn)
  /\ UNCHANGED <<compVars, histVars, envVars, inflight, escaped, errIn,
                 appVars, isMuted, enabled, nruns, ipc, initiator, cap,
                 stream, conn, chan, inbox>>

\* the catch block of initializeCall shows its toast
ToastInit ==
  /\ errOut = "none"
  /\ errOut' = InitToast(errIn)
  /\ UNCHANGED <<compVars, histVars, envVars, inflight, escaped, errIn,
                 appVars, isMuted, enabled, nruns, ipc, initiator, cap,
                 stream, conn, chan, inbox>>

\* ---------------------------------------------------------------- presence
\* all variables of the call component
callVars == <<compVars, histVars, envVars, inflight, escaped, isMuted,
              enabled, errIn, errOut, nruns, ipc, initiator, cap, stream,
              conn, chan, inbox>>

\* updateStatus: the update it issues, stamped with the client's clock
StatusUpdate(st) == [status |-> st, last_seen |-> now, epoch |-> epoch]

\* isUserOnline: timeDifferenceSeconds < 60
Fresh(age) == age < OnlineLimit

\* isUserOnline(lastSeen, status) evaluated when the clock shows t
isUserOnline(lastSeen, status, t) ==
  IF lastSeen = Null THEN FALSE
  ELSE status = "online" /\ Fresh((t - lastSeen) \div 1000)

\* the effect of useUserPresence runs: updateStatus("online"), setInterval
PresenceMount ==
  /\ ~hookMounted
  /\ epoch < MaxMounts
  /\ hookMounted' = TRUE
  /\ epoch' = epoch + 1
  /\ pendingUpd' = pendingUpd \cup
                     {[status |-> "online", last_seen |-> now,
                       epoch |-> epoch + 1]}
  /\ sinceBeat' = 0
  /\ landed' = FALSE
  /\ UNCHANGED <<callVars, dbVars, now, profile>>

\* the interval fires: updateStatus("online")
Heartbeat ==
  /\ hookMounted
  /\ sinceBeat = HeartbeatPeriod
  /\ pendingUpd' = pendingUpd \cup {StatusUpdate("online")}
  /\ sinceBeat' = 0
  /\ UNCHANGED <<callVars, dbVars, now, hookMounted, epoch, profile, landed>>

\* the cleanup of the effect: clearInterval, updateStatus("offline")
PresenceUnmount ==
  /\ hookMounted
  /\ hookMounted' = FALSE
  /\ pendingUpd' = pendingUpd \cup {StatusUpdate("offline")}
  /\ landed' = FALSE
  /\ UNCHANGED <<callVars, dbVars, now, epoch, sinceBeat, profile>>

\* the database applies one of the updates in flight; the requests are
\* independent of each other, so they are applied in any order
UpdateLands(u) ==
  /\ u \in pendingUpd
  /\ pendingUpd' = pendingUpd \ {u}
  /\ profile' = [status |-> u.status, last_seen |-> u.last_seen]
  /\ landed' = (landed \/ (hookMounted /\ u.epoch = epoch))
  /\ UNCHANGED <<callVars, dbVars, now, hookMounted, epoch, sinceBeat>>

\* time passes: a due heartbeat is not late and every update succeeds,
\* that is, it is applied within MaxLag of being issued
TimePasses ==
  /\ now + Step <= MaxTime
  /\ hookMounted => sinceBeat < HeartbeatPeriod
  /\ \A u \in pendingUpd : (now + Step) - u.last_seen <= MaxLag
  /\ now' = now + Step
  /\ sinceBeat' = IF hookMounted THEN sinceBeat + Step ELSE sinceBeat
  /\ UNCHANGED <<callVars, dbVars, hookMounted, epoch, profile, pendingUpd,
                 landed>>

\* ----------------------------------------------------------- chat requests
\* User "a" sends chat requests to the profile picked in the contact search;
\* user "b" accepts the pending requests shown in its list.

\* sendChatRequest up to the self test: getUser, targetProfileId === user.id
SendStart(i) ==
  /\ spos[i] = "idle"
  /\ spos' = [spos EXCEPT ![i] = IF target = "a" THEN "done" ELSE "chats"]
  /\ UNCHANGED <<callVars, presVars, target, requests, chatsShared, apos, areq>>

\* the chat_members queries: a chat shared with the target ends the call
SendCheckChat(i) ==
  /\ spos[i] = "chats"
  /\ spos' = [spos EXCEPT ![i] = IF chatsShared > 0 THEN "done"
                                  ELSE "request"]
  /\ UNCHANGED <<callVars, presVars, target, requests, chatsShared, apos, areq>>

\* maybeSingle() on the requests from the sender to the target: one row is
\* returned as data; no row, or more than one (an error, data null), is not
ExistingRequest(rows) == Len(rows) = 1

\* the chat_requests query: an existing request ends the call
SendCheckRequest(i) ==
  /\ spos[i] = "request"
  /\ spos' = [spos EXCEPT ![i] = IF ExistingRequest(requests) THEN "done"
                                  ELSE "insert"]
  /\ UNCHANGED <<callVars, presVars, target, requests, chatsShared, apos, areq>>

\* the insert: the row is added with the default status, or the request
\* fails and the error is shown
SendInsert(i, ok) ==
  /\ spos[i] = "insert"
  /\ spos' = [spos EXCEPT ![i] = "done"]
  /\ requests' = IF ok THEN Append(requests, "pending") ELSE requests
  /\ UNCHANGED <<callVars, presVars, target, chatsShared, apos, areq>>

\* acceptRequest called for a row of the list of pending requests
AcceptStart(i, r) ==
  /\ apos[i] = "idle"
  /\ r \in 1..Len(requests)
  /\ requests[r] = "pending"
  /\ apos' = [apos EXCEPT ![i] = "rpc"]
  /\ areq' = [areq EXCEPT ![i] = r]
  /\ UNCHANGED <<callVars, presVars, target, requests, chatsShared, spos>>

\* create_chat_with_members: one transaction that inserts the chat and both
\* members, or raises
AcceptRpc(i, ok) ==
  /\ apos[i] = "rpc"
  /\ IF ok
     THEN /\ chatsShared' = chatsShared + 1
          /\ apos' = [apos EXCEPT ![i] = "update"]
     ELSE /\ apos' = [apos EXCEPT ![i] = "done"]
          /\ UNCHANGED chatsShared
  /\ UNCHANGED <<callVars, presVars, target, requests, spos, areq>>

\* the update of the request's status, or its failure, which is shown
AcceptUpdate(i, ok) ==
  /\ apos[i] = "update"
  /\ apos' = [apos EXCEPT ![i] = "done"]
  /\ requests' = IF ok THEN [requests EXCEPT ![areq[i]] = "accepted"]
                  ELSE requests
  /\ UNCHANGED <<callVars, presVars, target, chatsShared, spos, areq>>

\* another member of the topic publishes a signaling payload
ThirdParty(t, to) ==
  /\ foreign < MaxForeign
  /\ \E p \in Peers, k \in Runs : chan[p][k] = "joined"
  /\ foreign' = foreign + 1
  /\ inbox' = [q \in Peers |-> [k \in Runs |->
                 IF chan[q][k] = "joined"
                 THEN Append(inbox[q][k],
                             [type |-> t, from |-> Third, to |-> to, gen |-> 0])
                 ELSE inbox[q][k]]]
  /\ UNCHANGED <<compVars, nruns, ipc, initiator, cap, stream, conn, chan,
                 histVars, prior, filtered, inflight, sideVars, escaped>>

Next ==
  \/ \E p \in Peers, init \in BOOLEAN : Open(p, init)
  \/ \E p \in Peers, k \in Runs : GumGranted(p, k)
  \/ \E p \in Peers, k \in Runs : GumDenied(p, k)
  \/ \E p \in Peers, k \in Runs, st \in SubStatuses :
       SubscribeStatus(p, k, st)
  \/ \E p \in Peers, k \in Runs : SendOffer(p, k)
  \/ \E p \in Peers, k \in Runs : OfferThrows(p, k)
  \/ \E p \in Peers, k \in Runs : LocalCandidate(p, k)
  \/ \E p \in Peers, k \in Runs : Deliver(p, k)
  \/ \E p \in Peers, k \in Runs : IceConnected(p, k)
  \/ \E p \in Peers, k \in Runs, st \in {"disconnected", "failed"} :
       IceLost(p, k, st)
  \/ \E p \in Peers : HangUp(p)
  \/ \E p \in Peers : ParentClose(p)

Spec == Init /\ [][Next]_vars

\* One participant against arbitrary traffic on the topic: "a" runs its
\* session while the third member publishes any payload to any recipient.
NextTopic ==
  \/ \E init \in BOOLEAN : Open("a", init)
  \/ \E k \in Runs : GumGranted("a", k)
  \/ \E k \in Runs : GumDenied("a", k)
  \/ \E k \in Runs, st \in SubStatuses : SubscribeStatus("a", k, st)
  \/ \E k \in Runs : SendOffer("a", k)
  \/ \E k \in Runs : LocalCandidate("a", k)
  \/ \E k \in Runs : Deliver("a", k)
  \/ \E k \in Runs : IceConnected("a", k)
  \/ \E k \in Runs, st \in {"disconnected", "failed"} : IceLost("a", k, st)
  \/ HangUp("a")
  \/ ParentClose("a")
  \/ \E t \in MsgTypes, to \in Users : ThirdParty(t, to)

SpecTopic == Init /\ [][NextTopic]_vars

\* A call that nobody ends: both dialogs are opened, every getUserMedia
\* and every subscription succeeds, nobody hangs up and the media
\* connection does not fail.  Each pending step eventually runs.
NextLive ==
  \/ \E p \in Peers, init \in BOOLEAN : Open(p, init)
  \/ \E p \in Peers, k \in Runs : GumGranted(p, k)
  \/ \E p \in Peers, k \in Runs : SubscribeStatus(p, k, "SUBSCRIBED")
  \/ \E p \in Peers, k \in Runs : SendOffer(p, k)
  \/ \E p \in Peers, k \in Runs : LocalCandidate(p, k)
  \/ \E p \in Peers, k \in Runs : Deliver(p, k)
  \/ \E p \in Peers, k \in Runs : IceConnected(p, k)

SpecLive == Init /\ [][NextLive]_vars /\ WF_vars(NextLive)

\* A responder with the awaits of the offer branch visible: the third
\* member publishes payloads addressed to "a", and the two halves of the
\* offer branch are separate steps between which every other callback of
\* the component may run.
NextAsync ==
  \/ Open("a", FALSE)
  \/ \E k \in Runs : GumGranted("a", k)
  \/ \E k \in Runs : GumDenied("a", k)
  \/ \E k \in Runs : SubscribeStatus("a", k, "SUBSCRIBED")
  \/ \E k \in Runs : OnOfferBegin("a", k)
  \/ \E k \in Runs : OnOfferResume("a", k)
  \/ \E k \in Runs : DeliverOther("a", k)
  \/ \E k \in Runs : IceConnected("a", k)
  \/ \E k \in Runs, st \in {"disconnected", "failed"} : IceLost("a", k, st)
  \/ HangUp("a")
  \/ ParentClose("a")
  \/ ToggleMute("a")
  \/ Tick("a")
  \/ \E t \in MsgTypes : ThirdParty(t, "a")

SpecAsync == Init /\ [][NextAsync]_vars

\* One participant that opens, closes and re-opens its dialog while its
\* platform calls succeed or fail; no payload reaches it.
NextReopen ==
  \/ \E init \in BOOLEAN : OpenDialog("a", init, MaxRuns)
  \/ \E k \in Runs : GumGranted("a", k)
  \/ \E k \in Runs : GumDenied("a", k)
  \/ \E k \in Runs, st \in SubStatuses : SubscribeStatus("a", k, st)
  \/ \E k \in Runs : SendOffer("a", k)
  \/ \E k \in Runs : OfferThrows("a", k)
  \/ \E k \in Runs : LocalCandidate("a", k)
  \/ HangUp("a")
  \/ ParentClose("a")

SpecReopen == Init /\ [][NextReopen]_vars

\* A responder that takes calls one after the other on the same mounted
\* component: it opens the dialog, answers the offer published on the
\* topic, mutes or unmutes, hangs up and opens the dialog again.  The
\* caller publishes at most one offer per call.
NextRedial ==
  \/ OpenDialog("a", FALSE, MaxRuns)
  \/ \E k \in Runs : GumGranted("a", k)
  \/ \E k \in Runs : SubscribeStatus("a", k, "SUBSCRIBED")
  \/ (foreign < nruns["a"] /\ ThirdParty("offer", "a"))
  \/ \E k \in Runs : Deliver("a", k)
  \/ ToggleMute("a")
  \/ HangUp("a")

SpecRedial == Init /\ [][NextRedial]_vars

\* The page that uses useUserPresence is mounted, unmounted and mounted
\* again for the same user while the clock runs.
NextPresence ==
  \/ PresenceMount
  \/ Heartbeat
  \/ PresenceUnmount
  \/ \E u \in pendingUpd : UpdateLands(u)
  \/ TimePasses

SpecPresence == Init /\ [][NextPresence]_vars

\* The sender picks a profile (its own or the other user's) and
\* sendChatRequest runs up to MaxInv times, overlapping; the receiver runs
\* acceptRequest up to MaxInv times on the pending requests it is shown.
InitRequests ==
  /\ InitCall
  /\ errIn = NoError
  /\ errOut = "none"
  /\ InitPresence
  /\ InitDb
  /\ target \in {"a", "b"}

NextRequests ==
  \/ \E i \in Inv : SendStart(i)
  \/ \E i \in Inv : SendCheckChat(i)
  \/ \E i \in Inv : SendCheckRequest(i)
  \/ \E i \in Inv, ok \in BOOLEAN : SendInsert(i, ok)
  \/ \E i \in Inv, r \in 1..MaxInv : AcceptStart(i, r)
  \/ \E i \in Inv, ok \in BOOLEAN : AcceptRpc(i, ok)
  \/ \E i \in Inv, ok \in BOOLEAN : AcceptUpdate(i, ok)

SpecRequests == InitRequests /\ [][NextRequests]_vars

\* A catch block receives any error value and shows its message.
InitErr ==
  /\ InitCall
  /\ errIn \in Errors
  /\ errOut = "none"
  /\ InitPresence
  /\ InitDb
  /\ target = "b"

NextErr ==
  \/ ToastFriendly
  \/ ToastInit

SpecErr == InitErr /\ [][NextErr]_vars

\* ------------------------------------------------------------ properties
Released(p, k) ==
  /\ stream[p][k] # "live"
  /\ conn[p][k].state # "open"
  /\ chan[p][k] \notin {"joining", "joined"}

SessionOver(p, k) == nruns[p] >= k /\ (nruns[p] > k \/ ~isOpen[p])

\* C1: a candidate handled before the remote description is applied is
\* not lost: once the connection has a remote description, every candidate
\* its handler received has been added to it.
C1_EarlyCandidateKept ==
  \A p \in Peers, k \in Runs :
    (conn[p][k].state = "open" /\ conn[p][k].hasRemote)
      => conn[p][k].added = conn[p][k].recv

\* C2: once a session is over (callStatus ended after cleanup) no later
\* event moves callStatus away from ended.
C2_EndedAbsorbing ==
  [][\A p \in Peers :
       (callStatus[p] = "ended" /\ ~isOpen[p] /\ ~isOpen'[p])
         => callStatus'[p] = "ended"]_vars

\* C3: with the subscription active at the first handleEndCall, a second
\* handleEndCall of the session leaves exactly one end-call sent and the
\* session's tracks stopped, connection closed and channel removed.
C3_HangUpIdempotent ==
  [][\A p \in Peers, k \in Runs :
       (hangCalls[p][k] = 1 /\ sentEnd[p][k] = 1 /\ hangCalls'[p][k] = 2)
         => /\ sentEnd'[p][k] = 1
            /\ stream'[p][k] = "stopped"
            /\ conn'[p][k].state = "closed"
            /\ chan'[p][k] = "removed"]_vars

\* C4: after a local hang-up in any phase, no resource of the session is
\* held, including what the still-running initialization acquires later.
C4_HangUpReleasesAll ==
  \A p \in Peers, k \in Runs : localHang[p][k] => Released(p, k)

\* C5: in every terminal state of a session (dialog closed, initializeCall
\* finished) its tracks are stopped, its connection is closed and its
\* subscription is removed.
C5_TerminalReleased ==
  \A p \in Peers, k \in Runs :
    (SessionOver(p, k) /\ ipc[p][k] \in {"done", "error"}) => Released(p, k)

\* C6: the role of a session never changes after it is created, and every
\* offer, sent or in flight, comes from a session created as initiator.
C6_RoleFixedOnlyInitiatorOffers ==
  /\ [](\A p \in Peers, k \in Runs :
          /\ sentOffer[p][k] => initiator[p][k]
          /\ \A i \in 1..Len(inbox[p][k]) :
               LET m == inbox[p][k][i] IN
               (m.type = "offer" /\ m.from \in Peers)
                  => initiator[m.from][m.gen])
  /\ [][\A p \in Peers, k \in Runs :
          ipc[p][k] # "none" => initiator'[p][k] = initiator[p][k]]_vars

C6_Witness ==
  \E p \in Peers :
    /\ ~initiator[p][1] /\ ipc[p][1] = "done"
    /\ conn[p][1].hasRemote
    /\ sentOffer[Other(p)][1] /\ ~sentOffer[p][1]

\* C7: the two sessions of a call never both send an offer.
C7_NoGlare ==
  \A j \in Runs, k \in Runs : ~(sentOffer["a"][j] /\ sentOffer["b"][k])

\* C8: the handler's step for a payload whose to field is not the local
\* participant changes no status, connection, resource or reference and
\* puts no message on the topic.
C8_ForeignDiscarded ==
  [][\A p \in Peers, k \in Runs :
       (Deliver(p, k) /\ Head(inbox[p][k]).to # p)
         => /\ UNCHANGED <<compVars, stream, conn, chan, histVars>>
            /\ \A q \in Peers, j \in Runs :
                 <<q, j>> # <<p, k>> => inbox'[q][j] = inbox[q][j]]_vars

C8_Witness ==
  /\ filtered
  /\ chan["a"][1] = "joined"
  /\ conn["a"][1] = NewConn
  /\ callStatus["a"] = "connecting"

\* C9: a message of a session that was already over when the receiving
\* session was opened triggers no transition in the receiving session.
C9_StaleIgnored ==
  [][\A p \in Peers, k \in Runs :
       (Deliver(p, k)
          /\ Head(inbox[p][k]).from \in Peers
          /\ Head(inbox[p][k]).gen <= prior[p][k])
         => UNCHANGED <<compVars, stream, conn, chan>>]_vars

\* C10: a session's offer is sent only after its own subscription was
\* confirmed with status SUBSCRIBED and the settle delay has elapsed.
C10_SubscribeBeforeOffer ==
  \A p \in Peers, k \in Runs :
    sentOffer[p][k] =>
      /\ chan[p][k] \in {"joined", "removed"}
      /\ ipc[p][k] = "done"

C10_Witness ==
  \E p \in Peers :
    /\ sentOffer[p][1]
    /\ \E i \in 1..Len(inbox[Other(p)][1]) :
         inbox[Other(p)][1][i].type = "offer"

\* C11: a responder whose handler received one candidate before any remote
\* description and is then handed the offer ends that step with the remote
\* description applied, the answer created and set, and the candidate
\* added to the connection.
C11_CandidateThenOffer ==
  [][\A p \in Peers, k \in Runs :
       (/\ Deliver(p, k)
        /\ Head(inbox[p][k]).type = "offer" /\ Head(inbox[p][k]).to = p
        /\ ~initiator[p][k]
        /\ conn[p][k].state = "open" /\ conn[p][k].sig = "stable"
        /\ ~conn[p][k].hasRemote /\ conn[p][k].recv = 1)
         => /\ conn'[p][k].hasRemote /\ conn'[p][k].hasLocal
            /\ conn'[p][k].added = 1]_vars

\* C12: the hang-up button used by an initiator that holds its capture and
\* has had no remote description or candidate yet, with or without a
\* confirmed subscription and a sent offer, ends the call, publishes one
\* end-call and stops the capture tracks.
C12_HangUpAwaitingAnswer ==
  [][\A p \in Peers :
       (/\ HangUp(p)
        /\ initiator[p][nruns[p]]
        /\ ipc[p][nruns[p]] \in {"sub", "delay", "done"}
        /\ ~conn[p][nruns[p]].hasRemote /\ conn[p][nruns[p]].recv = 0)
         => /\ callStatus'[p] = "ended"
            /\ sentEnd'[p][nruns[p]] = sentEnd[p][nruns[p]] + 1
            /\ stream'[p][nruns[p]] = "stopped"]_vars

\* C13: iceConnectionState failed on a connected call closes the call,
\* stops the capture tracks and publishes no end-call.
C13_IceFailedNoHangup ==
  [][\A p \in Peers, k \in Runs :
       (/\ IceLost(p, k, "failed")
        /\ callStatus[p] = "connected" /\ conn[p][k].ice = "connected")
         => /\ callStatus'[p] = "ended" /\ ~isOpen'[p]
            /\ stream'[p][k] = "stopped"
            /\ sentEnd' = sentEnd
            /\ inbox'[Other(p)] = inbox[Other(p)]]_vars

\* a run whose getUserMedia was rejected
Denied(p, k) == ipc[p][k] = "error" /\ stream[p][k] = "none"

\* C14: after getUserMedia is rejected the call is closed, and that run
\* never creates a connection or a channel and never publishes a message.
C14_DeniedNeverSubscribes ==
  \A p \in Peers, k \in Runs :
    Denied(p, k) =>
      /\ ~isOpen[p] /\ callStatus[p] = "ended"
      /\ chan[p][k] = "none" /\ conn[p][k].state = "none"
      /\ ~sentOffer[p][k] /\ sentEnd[p][k] = 0
      /\ \A j \in Runs : \A i \in 1..Len(inbox[Other(p)][j]) :
           inbox[Other(p)][j][i].from # p

C14_Witness ==
  \E p \in Peers :
    /\ Denied(p, 1) /\ hangCalls[p][1] = 0
    /\ chan[Other(p)][1] = "joined"

\* C18: the handler's step for an end-call received from the peer
\* publishes no end-call of its own.
C18_NoHangupEcho ==
  [][\A p \in Peers, k \in Runs :
       (/\ Deliver(p, k)
        /\ Head(inbox[p][k]).type = "end-call" /\ Head(inbox[p][k]).to = p)
         => /\ sentEnd' = sentEnd
            /\ inbox'[Other(p)] = inbox[Other(p)]]_vars

\* C17: a publish that finds no channel attached puts nothing on the
\* topic, changes nothing in the component, lets its caller run on to the
\* end (no error reaches initializeCall), and the offer is not published
\* later either.
C17_FireAndForget ==
  /\ [][\A p \in Peers, k \in Runs :
          (SendOffer(p, k) /\ conn[p][k].state = "open" /\ channelRef[p] = 0)
            => /\ inbox' = inbox /\ ~sentOffer'[p][k]
               /\ ipc'[p][k] = "done"
               /\ UNCHANGED <<compVars, stream, chan>>]_vars
  /\ [][\A p \in Peers, k \in Runs :
          (LocalCandidate(p, k) /\ channelRef[p] = 0)
            => /\ inbox' = inbox
               /\ UNCHANGED <<compVars, ipc, stream, chan>>]_vars
  /\ [][\A p \in Peers, k \in Runs :
          (ipc[p][k] = "done" /\ ~sentOffer[p][k]) => ~sentOffer'[p][k]]_vars

C17_Witness ==
  \E p \in Peers :
    /\ initiator[p][1] /\ ipc[p][1] = "done" /\ ~sentOffer[p][1]
    /\ conn[p][1].state = "open" /\ conn[p][1].hasLocal
    /\ chan[Other(p)][1] = "joined"

\* the offer of p was published while the channel of its peer, a
\* responder or not opened yet, was not joined
LostOffer(p) ==
  /\ initiator[p][1] /\ sentOffer[p][1]
  /\ ~initiator[Other(p)][1]
  /\ chan[Other(p)][1] \in {"none", "joining"}

\* C15: when the initiator's offer went out before the responder had
\* joined the topic, an offer still gets through once the responder has
\* joined, and both sides reach callStatus connected.
C15_LateResponderConnects ==
  \A p \in Peers :
    LostOffer(p) ~> (callStatus["a"] = "connected"
                       /\ callStatus["b"] = "connected")

\* C16: an initial offer whose send failed is sent again, and the session
\* fails and gives up its resources if that is lost too: after a lost
\* offer, either an offer reaches the peer or the session is closed and
\* released.
C16_OfferRetried ==
  \A p \in Peers :
    LostOffer(p) ~>
      \/ conn[Other(p)][1].hasRemote
      \/ \E i \in 1..Len(inbox[Other(p)][1]) :
           inbox[Other(p)][1][i].type = "offer"
      \/ (~isOpen[p] /\ Released(p, 1))

\* C19: when initializeCall has failed after the capture was granted,
\* the stream, the connection and the channel of that run are released.
C19_PartialInitReleased ==
  \A p \in Peers, k \in Runs :
    (ipc[p][k] = "error" /\ stream[p][k] # "none") => Released(p, k)

\* C20: while an invocation of the offer branch is suspended between its
\* two halves, the handler starts on no other payload of the session, no
\* ICE state callback of its connection runs and no hang-up is handled.
C20_HandlersSerialized ==
  [][\A p \in Peers, k \in Runs :
       inflight[p][k] > 0 =>
         ~ \/ OnOfferBegin(p, k)
           \/ (DeliverOther(p, k) /\ AcceptsPayload(Head(inbox[p][k]).to, p))
           \/ IceConnected(p, k)
           \/ \E st \in {"disconnected", "failed"} : IceLost(p, k, st)
           \/ (nruns[p] = k /\ HangUp(p))]_vars

\* C24: callStatus becomes connected only in the step in which the
\* connection of the session reports iceConnectionState connected.
C24_ConnectedOnlyOnIce ==
  [][\A p \in Peers :
       (callStatus[p] # "connected" /\ callStatus'[p] = "connected")
         => \E k \in Runs : IceConnected(p, k)]_vars

\* C28: an offer handed to an initiator or to a session that already has
\* a remote description, and an answer handed to a responder, change no
\* description of the connection and put no answer on the topic.
C28_PhaseGated ==
  [][\A p \in Peers, k \in Runs :
       (/\ Deliver(p, k)
        /\ Head(inbox[p][k]).to = p
        /\ \/ /\ Head(inbox[p][k]).type = "offer"
              /\ (initiator[p][k] \/ conn[p][k].hasRemote)
           \/ /\ Head(inbox[p][k]).type = "answer"
              /\ ~initiator[p][k])
         => /\ conn'[p][k] = conn[p][k]
            /\ inbox'[Other(p)] = inbox[Other(p)]]_vars

\* C30: a subscribe callback with a status other than SUBSCRIBED closes
\* the call and leaves the capture stopped and the connection closed.
C30_SubscribeFailureFails ==
  [][\A p \in Peers, k \in Runs, st \in SubStatuses \ {"SUBSCRIBED"} :
       (SubscribeStatus(p, k, st) /\ isOpen[p] /\ nruns[p] = k)
         => /\ ~isOpen'[p] /\ callStatus'[p] = "ended"
            /\ stream'[p][k] = "stopped"
            /\ conn'[p][k].state = "closed"]_vars

\* a step of p's component that runs cleanup
Teardown(p) ==
  \/ (isOpen[p] /\ HangUp(p))
  \/ (isOpen[p] /\ ParentClose(p))
  \/ \E k \in Runs, st \in {"disconnected", "failed"} : IceLost(p, k, st)
  \/ \E k \in Runs :
       /\ Deliver(p, k)
       /\ Head(inbox[p][k]).type = "end-call"
       /\ AcceptsPayload(Head(inbox[p][k]).to, p)

\* C26: cleanup never calls removeChannel on a channel that was already
\* removed, a cleanup that finds no stored channel changes no channel, and
\* after every cleanup channelRef.current is null.
C26_UnsubscribeIdempotent ==
  [][\A p \in Peers :
       Teardown(p) =>
         /\ channelRef'[p] = 0
         /\ \A k \in Runs :
              /\ channelRef[p] = k => chan[p][k] = "joined"
              /\ channelRef[p] # k => chan'[p][k] = chan[p][k]]_vars

C26_Witness ==
  /\ hangCalls["a"][1] = 2
  /\ chan["a"][1] = "removed"
  /\ channelRef["a"] = 0

\* C25: every local candidate event of a session whose dialog is open
\* finds a stored channel and publishes one ice-candidate message
\* addressed to the peer on the topic.
C25_LocalCandidateForwarded ==
  [][\A p \in Peers, k \in Runs :
       (/\ LocalCandidate(p, k)
        /\ isOpen[p] /\ nruns[p] = k /\ callStatus[p] # "ended")
         => /\ channelRef[p] # 0
            /\ inbox' = Broadcast(inbox, p, Msg("ice-candidate", p, k))]_vars

C25_Witness ==
  \E p \in Peers :
    /\ isOpen[p] /\ callStatus[p] # "ended"
    /\ conn[p][1].emitted = 1
    /\ \E i \in 1..Len(inbox[Other(p)][1]) :
         /\ inbox[Other(p)][1][i].type = "ice-candidate"
         /\ inbox[Other(p)][1][i].from = p
         /\ inbox[Other(p)][1][i].to = Other(p)

\* C21: one participant never has two live capture streams, two open
\* connections or two subscriptions (joining or joined) at the same time.
C21_OneActiveSession ==
  \A p \in Peers, j \in Runs, k \in Runs :
    j # k =>
      /\ ~(stream[p][j] = "live" /\ stream[p][k] = "live")
      /\ ~(conn[p][j].state = "open" /\ conn[p][k].state = "open")
      /\ ~(chan[p][j] \in {"joining", "joined"}
             /\ chan[p][k] \in {"joining", "joined"})

\* C22: a press of the mute button inverts the enabled flag of the
\* current stream's track and isMuted, and changes nothing else: no
\* message on the topic, no change of any connection, callStatus
\* unchanged.
C22_MuteLocal ==
  [][\A p \in Peers :
       ToggleMute(p) =>
         /\ UNCHANGED <<inbox, conn, compVars, stream, chan, ipc, histVars,
                        inflight>>
         /\ localStream[p] # 0 =>
              /\ isMuted'[p] = ~isMuted[p]
              /\ enabled'[p][localStream[p]] = ~enabled[p][localStream[p]]
              /\ \A k \in Runs \ {localStream[p]} :
                   enabled'[p][k] = enabled[p][k]]_vars

C22_Witness ==
  /\ isOpen["a"] /\ callStatus["a"] = "connected"
  /\ isMuted["a"] /\ ~enabled["a"][1]
  /\ conn["a"][1].hasRemote

InitFailed(p, k) == ipc[p][k] = "error"

\* C31: the "no microphone access" message is shown exactly when capture
\* was refused: a run whose catch block showed it never obtained a stream.
C31_DenialOnlyWhenRefused ==
  \A p \in Peers, k \in Runs :
    (InitFailed(p, k) /\ InitToast(NoError) = "no microphone access")
      <=> Denied(p, k)

\* C32: once a session is over (its dialog was closed by hang-up, end-call,
\* failure or the parent), its run of initializeCall creates no connection,
\* stores no channel in channelRef and publishes no offer, and its
\* connection publishes no candidate or answer.
C32_NothingAfterTeardown ==
  [][\A p \in Peers, k \in Runs :
       SessionOver(p, k) =>
         /\ ~(conn[p][k].state = "none" /\ conn'[p][k].state = "open")
         /\ ~(channelRef[p] # k /\ channelRef'[p] = k)
         /\ ~(~sentOffer[p][k] /\ sentOffer'[p][k])
         /\ ~(LocalCandidate(p, k) /\ ChannelReady(channelRef[p]))
         /\ ~(~conn[p][k].hasLocal /\ conn'[p][k].hasLocal
               /\ ChannelReady(channelRef[p]))]_vars

\* C33: while the component holds a capture stream, isMuted is true exactly
\* when the audio track of that stream is disabled, also in a session that
\* follows an earlier one on the same component.
C33_MutedFlagMatchesTrack ==
  \A p \in Peers :
    localStream[p] # 0 => (isMuted[p] <=> ~enabled[p][localStream[p]])

\* C34: while the dialog is open the status shown is never "ended": every
\* session, also one that follows an earlier session, starts "connecting".
C34_StartsConnecting ==
  \A p \in Peers :
    isOpen[p] =>
      /\ callStatus[p] # "ended"
      /\ (peerConnection[p] = 0 => callStatus[p] = "connecting")

\* C35: whenever callStatus is not "connected" the duration is 0 and no
\* interval is running, and never more than one interval is running.
C35_TimerOnlyWhileConnected ==
  \A p \in Peers :
    /\ callStatus[p] # "connected" =>
         (callDuration[p] = 0 /\ intervals[p] = 0)
    /\ intervals[p] <= 1

\* the counter has advanced while the offer branch is suspended after
\* ontrack set the status to connected
C35_Witness ==
  /\ isOpen["a"]
  /\ inflight["a"][1] > 0
  /\ callStatus["a"] = "connected"
  /\ callDuration["a"] = MaxTicks
  /\ callTimerRef["a"] = "running"
  /\ intervals["a"] = 1

\* C36: while the presence hook is mounted and an update of this mounting
\* has been applied, isUserOnline is true for the user at every moment; and
\* isUserOnline is true only for status online with a last_seen that is set
\* and less than 60 seconds old.
C36_OnlineWhileMounted ==
  /\ (hookMounted /\ landed)
       => isUserOnline(profile.last_seen, profile.status, now)
  /\ isUserOnline(profile.last_seen, profile.status, now)
       => /\ profile.status = "online"
          /\ profile.last_seen # Null
          /\ now - profile.last_seen < OnlineLimit * 1000

\* C37: at most one chat_requests row exists for the pair, and no row is
\* inserted when the sender picked itself or already shares a chat with
\* the target.
C37_OneRequestPerPair ==
  [][/\ Len(requests') <= 1
     /\ Len(requests') > Len(requests)
          => (target # "a" /\ chatsShared = 0)]_vars

\* C38: when acceptRequest has finished, either a chat with both members
\* exists and the request is accepted, or no chat exists and the request is
\* still pending; and the pair never has more than one chat.
C38_AcceptAllOrNothing ==
  /\ \A i \in Inv :
       apos[i] = "done" =>
         \/ (chatsShared >= 1 /\ requests[areq[i]] = "accepted")
         \/ (chatsShared = 0 /\ requests[areq[i]] = "pending")
  /\ chatsShared <= 1

====
